---- MODULE Spec2Model ----
\* Deep Keel client: the query form (pages/Upload.jsx), its per-field
\* validation, the submit pipeline (api.js submitClassification), the result
\* normaliser and the autocomplete hook, as one state machine.
\*
\* Strings the user types are tuples of one-character strings, so that
\* parseFloat / parseInt / toLowerCase / includes are computed and not assumed.
\* JavaScript numbers are kept in tenths (the form's inputs step by 0.1).
EXTENDS Integers, Sequences, FiniteSets, TLC

VARIABLES
    page,               \* the route shown: "home", "upload", "results", "about"
    offlineFallback,    \* whether this deployment is the offline-fallback variant
    formData,           \* useState(INITIAL_FORM_STATE)
    fieldErrors,        \* useState({}): field name -> message, only for fields with an entry
    uploading,          \* useState(false)
    error,              \* useState(null)
    pendingValidations, \* the setTimeout(() => validateField(field, value), 0) callbacks not yet run
    suggestions,        \* useAutocomplete: field -> candidate list
    showSuggestions,    \* useAutocomplete: field -> panel visible
    dismissed,          \* history: per autocomplete field, whether a select or an elapsed
                        \* dismiss has happened since the last keystroke in it
    pendingDismiss,     \* the setTimeout(..., 200) callbacks of hideAutocompleteSuggestions not yet run
    now,                \* the clock, in ms
    requests,           \* the classify calls awaiting their response
    results,            \* location.state.results of the results route: <<>> or <<resultsData>>
    lastSide,           \* history: per range pair, the side edited last
    lastOp,             \* history: the handler that ran last, with its field and value,
                        \* or the call it settled and the answer to it
    edits,              \* number of change events on the mounted form
    visits,             \* number of navigations so far
    submits,            \* number of classify calls started so far
    tabbedForm,         \* useState(INITIAL_FORM_STATE) of the tabbed form
    tabbedHeap          \* the INITIAL_FORM_STATE object of the tabbed form: its contents, and
                        \* the parts of the form state that are that object's own objects

formVars == <<formData, fieldErrors, pendingValidations, lastSide, edits>>
autoVars == <<suggestions, showSuggestions, pendingDismiss, dismissed>>
submitVars == <<uploading, error, requests, results, submits>>
vars == <<page, offlineFallback, formVars, autoVars, now, submitVars, lastOp, visits,
          tabbedForm, tabbedHeap>>

----------------------------------------------------------------------------
\* Bounds of the exploration.

MaxEdits == 3
MaxPending == 2
MaxSubmits == 2
MaxMatches == 3
MaxTicks == 4
MaxBlurs == 2
MaxVisits == 2

----------------------------------------------------------------------------
\* Strings and numbers.

E == <<>>

\* One decimal digit is kept (tenths): the range inputs have step "0.1".
Scale == 10

NaN == [nan |-> TRUE, v |-> 0]
Num(n) == [nan |-> FALSE, v |-> n]

IsDigit(c) == c \in {"0", "1", "2", "3", "4", "5", "6", "7", "8", "9"}

DigitVal(c) ==
    CASE c = "0" -> 0 [] c = "1" -> 1 [] c = "2" -> 2 [] c = "3" -> 3
      [] c = "4" -> 4 [] c = "5" -> 5 [] c = "6" -> 6 [] c = "7" -> 7
      [] c = "8" -> 8 [] c = "9" -> 9

\* Number of consecutive digits of s from position i on.
RECURSIVE DigitRun(_, _)
DigitRun(s, i) ==
    IF i <= Len(s) /\ IsDigit(s[i]) THEN 1 + DigitRun(s, i + 1) ELSE 0

\* Value of the n digits of s that start at position i.
RECURSIVE DigitsValue(_, _, _)
DigitsValue(s, i, n) ==
    IF n = 0 THEN 0 ELSE DigitsValue(s, i, n - 1) * 10 + DigitVal(s[i + n - 1])

\* parseFloat: optional sign, digits, optional fraction; the longest numeric
\* prefix counts and what follows it is ignored; NaN when there is no digit.
ParseFloat(s) ==
    LET signed == Len(s) >= 1 /\ s[1] \in {"-", "+"}
        st == IF signed THEN 2 ELSE 1
        n == DigitRun(s, st)
        dot == st + n
        hasDot == dot <= Len(s) /\ s[dot] = "."
        m == IF hasDot THEN DigitRun(s, dot + 1) ELSE 0
        mag == DigitsValue(s, st, n) * Scale + (IF m >= 1 THEN DigitVal(s[dot + 1]) ELSE 0)
    IN  IF n = 0 /\ m = 0 THEN NaN
        ELSE Num(IF signed /\ s[1] = "-" THEN 0 - mag ELSE mag)

\* parseInt: optional sign, digits; stops at the first other character.
\* parseInt taken for parseFloat.
ParseInt_AsFloat(s) == ParseFloat(s)

ParseInt(s) ==
    LET signed == Len(s) >= 1 /\ s[1] \in {"-", "+"}
        st == IF signed THEN 2 ELSE 1
        n == DigitRun(s, st)
        mag == DigitsValue(s, st, n) * Scale
    IN  IF n = 0 THEN NaN
        ELSE Num(IF signed /\ s[1] = "-" THEN 0 - mag ELSE mag)

----------------------------------------------------------------------------
\* The field catalog.

RangeValidations ==
    ("length_metres_min" :> [max |-> "length_metres_max"]) @@
    ("length_metres_max" :> [min |-> "length_metres_min"]) @@
    ("beam_metres_min" :> [max |-> "beam_metres_max"]) @@
    ("beam_metres_max" :> [min |-> "beam_metres_min"]) @@
    ("draught_metres_min" :> [max |-> "draught_metres_max"]) @@
    ("draught_metres_max" :> [min |-> "draught_metres_min"]) @@
    ("speed_knots_min" :> [max |-> "speed_knots_max"]) @@
    ("speed_knots_max" :> [min |-> "speed_knots_min"])

RangeFields == DOMAIN RangeValidations

\* A validated set that takes in the ship name.
FieldsToValidate_WithName ==
    RangeFields \cup {"launch_year", "commission_year", "top_k", "ship_name"}

FieldsToValidate == RangeFields \cup {"launch_year", "commission_year", "top_k"}

\* The fields of INITIAL_FORM_STATE the model carries: two of the range pairs,
\* the result count, a year, a free-text field, the two autocomplete fields
\* and one boolean-like field.
Fields ==
    {"length_metres_min", "length_metres_max", "speed_knots_min", "speed_knots_max",
     "top_k", "launch_year", "ship_name", "country", "base_port", "flight_deck"}

\* The range fields among them.
PairedFields == RangeFields \cap Fields

INITIAL_FORM_STATE ==
    [f \in Fields |->
        IF f = "top_k" THEN <<"5">>
        ELSE IF f = "flight_deck" THEN <<"F", "a", "l", "s", "e">>
        ELSE E]

TopKMin == 1
TopKMax == 10
YearMin == 1800
YearMax == 2050

----------------------------------------------------------------------------
\* FieldErrorSet.

NoFieldErrors == [g \in {} |-> ""]

SetError(fe, f, m) == [g \in DOMAIN fe \cup {f} |-> IF g = f THEN m ELSE fe[g]]

DeleteError(fe, f) == [g \in DOMAIN fe \ {f} |-> fe[g]]

\* RangeCheck with its else-if branch lost: only a min field is compared.
RangeCheck_MinSideOnly(fe, fieldName, numValue, fd) ==
    LET validation == RangeValidations[fieldName] IN
    IF "max" \in DOMAIN validation
    THEN LET maxValue == fd[validation.max] IN
         IF maxValue # E /\ ~ParseFloat(maxValue).nan /\ ParseFloat(maxValue).v < numValue.v
         THEN SetError(fe, fieldName, "Min cannot exceed Max")
         ELSE fe
    ELSE fe

\* The range check of validateField: the sibling is read from fd, the formData
\* of the render whose validateField this is.
RangeCheck(fe, fieldName, numValue, fd) ==
    LET validation == RangeValidations[fieldName] IN
    IF "max" \in DOMAIN validation
    THEN LET maxValue == fd[validation.max] IN
         IF maxValue # E /\ ~ParseFloat(maxValue).nan /\ ParseFloat(maxValue).v < numValue.v
         THEN SetError(fe, fieldName, "Min cannot exceed Max")
         ELSE fe
    ELSE LET minValue == fd[validation.min] IN
         IF minValue # E /\ ~ParseFloat(minValue).nan /\ ParseFloat(minValue).v > numValue.v
         THEN SetError(fe, fieldName, "Max cannot be less than Min")
         ELSE fe

\* The bounds test of validateField on the result count.
TopKOutOfRange_OffByOne(numValue) ==
    numValue.v < TopKMin * Scale \/ numValue.v >= TopKMax * Scale

TopKOutOfRange(numValue) ==
    numValue.v < TopKMin * Scale \/ numValue.v > TopKMax * Scale

\* validateField(fieldName, value), as the net effect of its setFieldErrors
\* calls on fe; fd is the formData its closure holds.
ValidateField(fe, fieldName, value, fd) ==
    IF value = E THEN DeleteError(fe, fieldName)
    ELSE LET numValue == ParseFloat(value) IN
         IF numValue.nan THEN SetError(fe, fieldName, "Invalid number")
         ELSE IF numValue.v < 0 THEN SetError(fe, fieldName, "Must be 0 or greater")
         ELSE LET cleared == DeleteError(fe, fieldName) IN
              IF fieldName \in RangeFields
                   /\ RangeCheck(cleared, fieldName, numValue, fd) # cleared
              THEN RangeCheck(cleared, fieldName, numValue, fd)
              ELSE IF fieldName = "top_k" /\ TopKOutOfRange(numValue)
              THEN SetError(cleared, fieldName, "Must be between 1 and 10")
              ELSE IF fieldName \in {"launch_year", "commission_year"}
                        /\ (numValue.v < YearMin * Scale \/ numValue.v > YearMax * Scale)
              THEN SetError(cleared, fieldName, "Must be between 1800 and 2050")
              ELSE cleared

----------------------------------------------------------------------------
\* The autocomplete catalogs and their filter.

Lower(c) ==
    CASE c = "A" -> "a" [] c = "B" -> "b" [] c = "C" -> "c" [] c = "D" -> "d"
      [] c = "E" -> "e" [] c = "F" -> "f" [] c = "G" -> "g" [] c = "H" -> "h"
      [] c = "I" -> "i" [] c = "J" -> "j" [] c = "K" -> "k" [] c = "L" -> "l"
      [] c = "M" -> "m" [] c = "N" -> "n" [] c = "O" -> "o" [] c = "P" -> "p"
      [] c = "Q" -> "q" [] c = "R" -> "r" [] c = "S" -> "s" [] c = "T" -> "t"
      [] c = "U" -> "u" [] c = "V" -> "v" [] c = "W" -> "w" [] c = "X" -> "x"
      [] c = "Y" -> "y" [] c = "Z" -> "z" [] OTHER -> c

\* A toLowerCase that leaves its argument as it is.
ToLowerCase_AsIs(s) == s

ToLowerCase(s) == [i \in 1..Len(s) |-> Lower(s[i])]

\* String.prototype.includes
Includes(s, t) ==
    \E i \in 0..(Len(s) - Len(t)) : \A j \in 1..Len(t) : s[i + j] = t[j]

\* An excerpt of AUTOCOMPLETE_DATA, in catalog order.
Countries ==
    << <<"C", "h", "a", "d">>, <<"C", "h", "i", "l", "e">>, <<"C", "u", "b", "a">>,
       <<"I", "n", "d", "i", "a">> >>
Ports ==
    << <<"B", "r", "e", "s", "t">>, <<"K", "i", "e", "l">>, <<"S", "y", "d", "n", "e", "y">> >>

AutoFields == {"country", "base_port"}

\* The list handleAutocomplete(field, value) filters out of the field's catalog.
Filtered(field, value) ==
    IF field = "country"
    THEN SelectSeq(Countries, LAMBDA c : Includes(ToLowerCase(c), ToLowerCase(value)))
    ELSE IF field = "base_port"
    THEN SelectSeq(Ports, LAMBDA q : Includes(ToLowerCase(q), ToLowerCase(value)))
    ELSE <<>>

DismissDelay == 200

----------------------------------------------------------------------------
\* The wire contract of POST /api/classify and the result normaliser.

\* The i-th record of a ranked match list the service returns. Optional
\* fields are "" when absent; the third record has no ship_info block.
RawMatchAt(i) ==
    IF i % 3 = 0
    THEN [similarity_score |-> Num((100 - 10 * i) * Scale)]
    ELSE [ship_info |->
            [name |-> IF i = 1 THEN "USS Arleigh Burke" ELSE "",
             ship_type |-> IF i = 1 THEN "Destroyer" ELSE "",
             pages |-> IF i = 1 THEN "12-14" ELSE "",
             ship_class |-> "Arleigh Burke",
             country |-> IF i = 1 THEN "United States" ELSE ""],
          similarity_score |-> Num((100 - 10 * i) * Scale - 5)]

MatchList(n) == [i \in 1..n |-> RawMatchAt(i)]

\* The fixed match set of generateMockReport: five records, none of which has
\* a ship_info block or a similarity_score.
MockMatchAt(i) ==
    [ship_name |-> IF i <= 3 THEN "USS" ELSE "HMS",
     ship_class |-> IF i <= 3 THEN "Arleigh Burke" ELSE "Type 45",
     hull_number |-> i,
     confidence |-> Num(IF i <= 3 THEN 960 - 10 * i ELSE 910 - 10 * i)]

\* The synthetic set with its last entry lost.
MockMatches_OneShort == [i \in 1..4 |-> MockMatchAt(i)]

MockMatches == [i \in 1..5 |-> MockMatchAt(i)]

\* A report text is a sequence of lines; a line has the label it starts with
\* and the pieces of text that follow it.
Line(label, text) == [label |-> label, text |-> text]

\* Date.prototype.toISOString and toLocaleDateString of the time ms: the
\* instant, and the day it falls on.
MsPerDay == 86400000
ToISOString(ms) == <<ToString(ms)>>
ToLocaleDateString(ms) == <<ToString(ms \div MsPerDay)>>

\* value || 'N/A'
OrNA(value) == IF value # E THEN value ELSE <<"N/A">>

\* A report whose coverage line ends in the year of the clock.
GenerateReportText_DatedRange(fd, matches, clock) ==
    <<Line("Report Date: ", ToLocaleDateString(clock)),
      Line("  - Date range: 1940-", ToLocaleDateString(clock)),
      Line("Timestamp: ", ToISOString(clock))>>

\* generateReportText(formData, matches, reportDate): the lines that depend on
\* the form, the matches or the clock, in the order of the text.
GenerateReportText(fd, matches, clock) ==
    <<Line("Report Date: ", ToLocaleDateString(clock)),
      Line("Report ID: ", <<"MOCK-", ToString(clock)>>),
      Line("  Length:     ",
           OrNA(fd["length_metres_min"]) \o <<"m - ">>
             \o OrNA(fd["length_metres_max"]) \o <<"m">>)>>
    \o (IF fd["country"] # E
        THEN <<Line("Additional Criteria:", <<>>),
               Line("  Country:    ", fd["country"])>>
        ELSE <<>>)
    \o <<Line("Total Matches Found: ", <<ToString(Len(matches))>>)>>
    \o [i \in 1..Len(matches) |->
          Line("Match #", <<ToString(i), ": ", matches[i].ship_name>>)]
    \o <<Line("  - Date range: 1940-2024", <<>>),
         Line("Timestamp: ", ToISOString(clock))>>

Data(success, err, matches) ==
    [success |-> success, error |-> err, matches |-> matches,
     total_matches |-> Len(matches), report_text |-> <<Line("Report", <<"report">>)>>,
     classification_id |-> "id"]

NoData == Data(FALSE, "", <<>>)

\* generateMockReport(formData), called when the clock shows the time clock.
GenerateMockReport(payload, clock) ==
    [success |-> TRUE, error |-> "", matches |-> MockMatches,
     total_matches |-> Len(MockMatches),
     report_id |-> <<"MOCK-", ToString(clock)>>, timestamp |-> ToISOString(clock),
     query_params |-> payload,
     report_text |-> GenerateReportText(payload, MockMatches, clock),
     classification_id |-> ""]

\* What the network can answer to one classify call.
Responses ==
    {[kind |-> "network", message |-> m, status |-> 0, data |-> NoData] :
        m \in {"Failed to fetch"}}
    \cup
    {[kind |-> "http", message |-> "", status |-> st, data |-> Data(FALSE, "", <<>>)] :
        st \in {400, 500}}
    \cup
    {[kind |-> "http", message |-> "", status |-> st, data |-> Data(FALSE, "top_k out of range", <<>>)] :
        st \in {422, 200}}
    \cup
    {[kind |-> "http", message |-> "", status |-> 200, data |-> Data(TRUE, "", MatchList(n))] :
        n \in {MaxMatches}}

\* Every answer the wire contract allows, among them a status the client has
\* no branch for, a network failure whose message does not name fetch, and a
\* successful answer without matches.
AllResponses ==
    Responses
    \cup
    {[kind |-> "network", message |-> "Load failed", status |-> 0, data |-> NoData]}
    \cup
    {[kind |-> "http", message |-> "", status |-> st, data |-> Data(FALSE, e, <<>>)] :
        st \in {400, 422, 500, 503}, e \in {"", "top_k out of range"}}
    \cup
    {[kind |-> "http", message |-> "", status |-> 200, data |-> Data(FALSE, "", <<>>)]}
    \cup
    {[kind |-> "http", message |-> "", status |-> 200, data |-> Data(TRUE, "", MatchList(n))] :
        n \in 0..MaxMatches}

Threw(m) == [threw |-> TRUE, message |-> m, data |-> NoData]
Returned(d) == [threw |-> FALSE, message |-> "", data |-> d]

\* error.message.includes('fetch') for the messages a failed fetch carries.
MessageIncludesFetch(m) == m = "Failed to fetch"

\* submitClassification(formData) once the network has answered with resp.
SubmitClassification(resp) ==
    IF resp.kind = "network"
    THEN IF MessageIncludesFetch(resp.message)
         THEN Threw("Unable to connect to the server. Please check your connection and try again.")
         ELSE Threw(resp.message)
    ELSE IF resp.status < 200 \/ resp.status > 299
    THEN IF resp.status = 400
         THEN Threw(IF resp.data.error # "" THEN resp.data.error
                    ELSE "Invalid form data or request")
         ELSE IF resp.status = 422
         THEN Threw(IF resp.data.error # "" THEN resp.data.error
                    ELSE "Validation error: Please check your input values")
         ELSE IF resp.status = 500
         THEN Threw("Server error occurred while processing the classification")
         ELSE Threw("Classification failed with status " \o ToString(resp.status))
    ELSE IF ~resp.data.success
    THEN Threw(IF resp.data.error # "" THEN resp.data.error ELSE "Classification failed")
    ELSE Returned(resp.data)

\* A slice that keeps the whole list.
SliceTo_Whole(s, n) == s

\* Array.prototype.slice(0, n)
SliceTo(s, n) ==
    IF n >= 0 THEN SubSeq(s, 1, IF n < Len(s) THEN n ELSE Len(s))
    ELSE SubSeq(s, 1, IF Len(s) + n > 0 THEN Len(s) + n ELSE 0)

DefaultMaxResults == 10

Truthy(str) == str # ""

\* transformMatchesToDisplay(matches), with fd the formData of the render
\* whose handleSubmit is running. confidence is in thousandths.
TransformMatchesToDisplay(matches, fd) ==
    IF Len(matches) = 0 THEN <<>>
    ELSE LET k == ParseInt(fd["top_k"])
             maxResults == IF k.nan \/ k.v = 0 THEN DefaultMaxResults ELSE k.v \div Scale
             kept == SliceTo(matches, maxResults)
         IN [index \in 1..Len(kept) |->
               LET match == kept[index]
                   has == "ship_info" \in DOMAIN match
                   nm == IF has THEN match.ship_info.name ELSE ""
                   ty == IF has THEN match.ship_info.ship_type ELSE ""
                   pg == IF has THEN match.ship_info.pages ELSE ""
                   cl == IF has THEN match.ship_info.ship_class ELSE ""
                   co == IF has THEN match.ship_info.country ELSE ""
               IN [id |-> index - 1,
                   name |-> IF Truthy(nm) THEN nm ELSE "Unknown Vessel",
                   type |-> IF Truthy(ty) THEN ty ELSE "Unknown Type",
                   pages |-> IF Truthy(pg) THEN pg ELSE "N/A",
                   confidence |-> IF "similarity_score" \in DOMAIN match
                                  THEN match.similarity_score ELSE NaN,
                   match_factors |->
                       SelectSeq(<<[label |-> "Class", value |-> cl],
                                   [label |-> "Country", value |-> co]>>,
                                 LAMBDA item : Truthy(item.value))]]

\* Math.max over a non-empty list of numbers: NaN as soon as one is NaN.
RECURSIVE MathMax(_)
MathMax(ns) ==
    IF Len(ns) = 1 THEN ns[1]
    ELSE LET rest == MathMax(Tail(ns)) IN
         IF ns[1].nan \/ rest.nan THEN NaN
         ELSE IF ns[1].v >= rest.v THEN ns[1] ELSE rest

\* The maximum taken without the empty-list guard: Math.max() of no arguments
\* lies below every percentage.
CalculateMaxSimilarity_NoEmptyGuard(matches) ==
    IF Len(matches) = 0 THEN Num(0 - Scale)
    ELSE MathMax([i \in 1..Len(matches) |-> matches[i].confidence])

\* calculateMaxSimilarity(matches), in tenths of a percent.
CalculateMaxSimilarity(matches) ==
    IF Len(matches) = 0 THEN Num(0)
    ELSE MathMax([i \in 1..Len(matches) |-> matches[i].confidence])

\* The bands with strict comparisons.
GetSimilarityLevel_Strict(score) ==
    IF ~score.nan /\ score.v > 80 * Scale THEN "High"
    ELSE IF ~score.nan /\ score.v > 60 * Scale THEN "Medium"
    ELSE "Low"

\* getSimilarityLevel(score): a comparison with NaN is false.
GetSimilarityLevel(score) ==
    IF ~score.nan /\ score.v >= 80 * Scale THEN "High"
    ELSE IF ~score.nan /\ score.v >= 60 * Scale THEN "Medium"
    ELSE "Low"

\* The resultsData object handleSubmit builds from a response.
ResultsData(data, fd) ==
    LET transformedMatches == TransformMatchesToDisplay(data.matches, fd)
        maxSimilarity == CalculateMaxSimilarity(transformedMatches)
    IN [vessels_detected |-> data.total_matches,
        average_similarity |-> maxSimilarity,
        similarity_level |-> GetSimilarityLevel(maxSimilarity),
        matches |-> transformedMatches,
        filename |-> IF fd["ship_name"] # E THEN fd["ship_name"]
                     ELSE <<"classification_query">>,
        classification_data |->
            [report_text |-> data.report_text,
             classification_id |-> data.classification_id,
             matches |-> data.matches]]

\* The Results page: the ranked match list and the empty state are rendered
\* under two separate conditions.
MatchListShown(r) == Len(r.matches) > 0
EmptyStateShown(r) == r.vessels_detected = 0

----------------------------------------------------------------------------
\* Errors shown above the form.

NoError == [kind |-> "null", text |-> <<>>]
Message(lines) == [kind |-> "message", text |-> lines]

\* The required list without the result count.
RequiredFields_SpeedOnly ==
    <<[label |-> "Speed Min", field |-> "speed_knots_min"],
      [label |-> "Speed Max", field |-> "speed_knots_max"]>>

\* The required fields of handleSubmit, in the order of its object literal.
RequiredFields ==
    <<[label |-> "Speed Min", field |-> "speed_knots_min"],
      [label |-> "Speed Max", field |-> "speed_knots_max"],
      [label |-> "Number of Matches", field |-> "top_k"]>>

MissingFields(fd) == SelectSeq(RequiredFields, LAMBDA r : fd[r.field] = E)

\* The message of the required-field gate: the heading line, then one
\* "- <label>" line per missing field.
RequiredMessage(missing) ==
    Message(<<"Please fill in the following required fields:">>
            \o [i \in 1..Len(missing) |-> missing[i].label])

\* AfterAwait with a catch block that swallows what was thrown.
AfterAwait_SilentCatch(call, fd) ==
    IF call.threw \/ ~call.data.success
    THEN [navigated |-> FALSE, error |-> NoError, results |-> <<>>]
    ELSE [navigated |-> TRUE, error |-> NoError, results |-> <<ResultsData(call.data, fd)>>]

\* The try / catch of handleSubmit after the await: what the call gave, as
\* [navigated, error, results].
AfterAwait(call, fd) ==
    IF call.threw
    THEN [navigated |-> FALSE,
          error |-> Message(<<IF call.message # "" THEN call.message
                              ELSE "An error occurred during classification. Please try again.">>),
          results |-> <<>>]
    ELSE IF ~call.data.success
    THEN [navigated |-> FALSE,
          error |-> Message(<<IF call.data.error # "" THEN call.data.error
                              ELSE "Classification failed">>),
          results |-> <<>>]
    ELSE [navigated |-> TRUE, error |-> NoError, results |-> <<ResultsData(call.data, fd)>>]

\* The offline-fallback variant: a call that failed because the service could
\* not be reached is answered by the report generator instead.
WithFallback(resp, call, payload) ==
    IF offlineFallback /\ resp.kind = "network"
    THEN Returned(GenerateMockReport(payload, now))
    ELSE call

----------------------------------------------------------------------------
\* The pages.

\* The tabbed form: an excerpt of its INITIAL_FORM_STATE with two array-valued
\* fields, a nested one and two plain ones, and of the tag options and
\* quick-fill templates that go with them.
TABBED_INITIAL_FORM_STATE ==
    [shipType |-> "", position |-> [lat |-> "", lon |-> ""],
     hullShape |-> <<>>, radarArrays |-> <<>>, rasOperations |-> "unknown"]

PlainFields == {"shipType", "rasOperations"}

ArrayFields == {"hullShape", "radarArrays"}

\* keyed by the form field the options are offered for
TAG_OPTIONS ==
    [hullShape |-> {"Sleek/Streamlined", "Rounded", "Tumblehome"},
     radarArrays |-> {"SPY-1D", "Sampson", "S1850M"}]

QUICK_FILL_TEMPLATES ==
    ("Arleigh Burke DDG" :>
        [shipType |-> "destroyer", hullShape |-> <<"Sleek/Streamlined">>,
         radarArrays |-> <<"SPY-1D">>])
    @@
    ("Type 45 Destroyer" :>
        [shipType |-> "destroyer", hullShape |-> <<"Sleek/Streamlined", "Tumblehome">>,
         radarArrays |-> <<"Sampson", "S1850M">>])

\* Array.prototype.includes and Array.prototype.filter(v => v !== value)
ArrayIncludes(arr, value) == \E i \in 1..Len(arr) : arr[i] = value
Without(arr, value) == SelectSeq(arr, LAMBDA v : v # value)

\* field.includes('.') and field.split('.') for the field names of the form.
IncludesDot(field) == field \in {"position.lat", "position.lon"}
Split(field) ==
    CASE field = "position.lat" -> <<"position", "lat">>
      [] field = "position.lon" -> <<"position", "lon">>
      [] OTHER -> <<field>>

\* A nested update that builds the parent from the changed child alone.
InputChanged_ParentRebuilt(prev, field, value) ==
    IF IncludesDot(field)
    THEN LET parent == Split(field)[1]
             child == Split(field)[2]
         IN [prev EXCEPT ![parent] =
               [c \in DOMAIN prev[parent] |-> IF c = child THEN value ELSE ""]]
    ELSE [prev EXCEPT ![field] = value]

\* The updater handleInputChange(field, value) of the tabbed form passes to
\* setFormData.
InputChanged(prev, field, value) ==
    IF IncludesDot(field)
    THEN LET parent == Split(field)[1]
             child == Split(field)[2]
         IN [prev EXCEPT ![parent] = [prev[parent] EXCEPT ![child] = value]]
    ELSE [prev EXCEPT ![field] = value]

\* A toggle that never removes.
Toggled_NeverRemoves(prev, field, value) ==
    [prev EXCEPT ![field] = IF ArrayIncludes(prev[field], value) THEN prev[field]
                            ELSE Append(prev[field], value)]

\* The updater toggleArrayValue(field, value) passes to setFormData.
Toggled(prev, field, value) ==
    [prev EXCEPT ![field] = IF ArrayIncludes(prev[field], value)
                            THEN Without(prev[field], value)
                            ELSE Append(prev[field], value)]

\* The objects a form state consists of: the state object itself with its
\* plain fields, the nested position object and the two arrays. A state
\* variable holds references, so a part of the form state can be the very
\* object INITIAL_FORM_STATE holds.
Parts == {"top", "position", "hullShape", "radarArrays"}
PartValue(form, part) ==
    IF part = "top" THEN [f \in PlainFields |-> form[f]] ELSE form[part]

\* A toggle that pushes onto the array it finds.
ReplacedByToggle_Push(field) == {"top"}

\* The parts that the value a handler passes to setFormData does not take
\* over from the previous state: { ...prev } is a new state object, and the
\* part named by the update is a new object or one of a template.
ReplacedByToggle(field) == {"top", field}
ReplacedByInputChange(field) ==
    IF IncludesDot(field) THEN {"top", Split(field)[1]} ELSE {"top"}
ReplacedByQuickFill(template) == {"top"} \cup (DOMAIN QUICK_FILL_TEMPLATES[template] \cap Parts)

\* The heap after setFormData: a part that was taken over and yet differs has
\* been written in place, and if it is an object of INITIAL_FORM_STATE, that
\* object has changed with it.
HeapAfter(heap, prev, next, replaced) ==
    LET written == {p \in heap.shared \ replaced : PartValue(prev, p) # PartValue(next, p)}
    IN [initial |->
          [f \in DOMAIN heap.initial |->
             IF f \in written \/ (f \in PlainFields /\ "top" \in written)
             THEN next[f] ELSE heap.initial[f]],
        shared |-> heap.shared \ replaced]

Op(name, field, value) == [op |-> name, field |-> field, value |-> value]
Settled(r, resp) == [op |-> "settle", field |-> "", value |-> E, request |-> r, resp |-> resp]

Init ==
    /\ page = "upload"
    /\ offlineFallback \in BOOLEAN
    /\ formData = INITIAL_FORM_STATE
    /\ fieldErrors = NoFieldErrors
    /\ uploading = FALSE
    /\ error = NoError
    /\ pendingValidations = <<>>
    /\ suggestions = [f \in AutoFields |-> <<>>]
    /\ showSuggestions = [f \in AutoFields |-> FALSE]
    /\ pendingDismiss = <<>>
    /\ dismissed = [f \in AutoFields |-> FALSE]
    /\ now = 0
    /\ requests = <<>>
    /\ results = <<>>
    /\ lastSide = [f \in PairedFields |-> FALSE]
    /\ lastOp = Op("mount", "", E)
    /\ tabbedForm = TABBED_INITIAL_FORM_STATE
    /\ tabbedHeap = [initial |-> TABBED_INITIAL_FORM_STATE, shared |-> Parts]
    /\ edits = 0
    /\ visits = 0
    /\ submits = 0

\* The state of an UploadPage that has just been mounted (its useState
\* initial values). Timers of an unmounted page act on nothing and are dropped.
FreshUploadPage ==
    /\ formData' = INITIAL_FORM_STATE
    /\ fieldErrors' = NoFieldErrors
    /\ uploading' = FALSE
    /\ error' = NoError
    /\ pendingValidations' = <<>>
    /\ suggestions' = [f \in AutoFields |-> <<>>]
    /\ showSuggestions' = [f \in AutoFields |-> FALSE]
    /\ pendingDismiss' = <<>>
    /\ dismissed' = [f \in AutoFields |-> FALSE]
    /\ lastSide' = [f \in PairedFields |-> FALSE]
    /\ edits' = 0

\* The calls in flight once the page that started them is unmounted.
Orphaned(reqs) == [i \in 1..Len(reqs) |-> [reqs[i] EXCEPT !.mounted = FALSE]]

\* handleInputChange(field, value): the value is written at once; for a
\* validated field a zero-delay timer is set whose validateField belongs to
\* the render that handled the event, so it holds that render's formData.
HandleInputChange(field, value) ==
    /\ page = "upload"
    /\ edits < MaxEdits
    /\ Len(pendingValidations) < MaxPending
    /\ formData' = [formData EXCEPT ![field] = value]
    /\ pendingValidations' =
         IF field \in FieldsToValidate
         THEN Append(pendingValidations,
                     [field |-> field, value |-> value, formData |-> formData])
         ELSE pendingValidations
    /\ lastSide' = IF field \in RangeFields
                   THEN [f \in PairedFields |->
                           IF f = field THEN TRUE
                           ELSE IF f \in {RangeValidations[field][k] : k \in DOMAIN RangeValidations[field]}
                           THEN FALSE ELSE lastSide[f]]
                   ELSE lastSide
    /\ edits' = edits + 1
    /\ UNCHANGED fieldErrors

\* onChange of a plain input, a select or a number input: the event carries
\* a value other than the one shown.
OnChange(field, value) ==
    /\ field \notin AutoFields
    /\ value # formData[field]
    /\ HandleInputChange(field, value)
    /\ lastOp' = Op("change", field, value)
    /\ UNCHANGED <<page, offlineFallback, tabbedForm, tabbedHeap, visits, autoVars, now, submitVars>>

\* handleAutocomplete(field, value)
HandleAutocomplete(field, value) ==
    /\ suggestions' = [suggestions EXCEPT ![field] = Filtered(field, value)]
    /\ showSuggestions' = [showSuggestions EXCEPT ![field] = Len(value) > 0]

\* onChange of a FormAutocomplete input.
OnChangeAutocomplete(field, value) ==
    /\ field \in AutoFields
    /\ value # formData[field]
    /\ HandleInputChange(field, value)
    /\ HandleAutocomplete(field, value)
    /\ dismissed' = [dismissed EXCEPT ![field] = FALSE]
    /\ lastOp' = Op("change", field, value)
    /\ UNCHANGED <<page, offlineFallback, tabbedForm, tabbedHeap, visits, pendingDismiss, now, submitVars>>

\* selectSuggestion(field, value)
SelectSuggestion(field, value) ==
    showSuggestions' = [showSuggestions EXCEPT ![field] = FALSE]

\* onSelect of a FormAutocomplete: a click on an entry of the rendered panel.
OnSelect(field, value) ==
    /\ field \in AutoFields
    /\ showSuggestions[field]
    /\ \E i \in 1..Len(suggestions[field]) : suggestions[field][i] = value
    /\ HandleInputChange(field, value)
    /\ SelectSuggestion(field, value)
    /\ dismissed' = [dismissed EXCEPT ![field] = TRUE]
    /\ lastOp' = Op("select", field, value)
    /\ UNCHANGED <<page, offlineFallback, tabbedForm, tabbedHeap, visits, suggestions, pendingDismiss, now, submitVars>>

\* hideAutocompleteSuggestions(field), the onBlur of a FormAutocomplete.
HideAutocompleteSuggestions(field) ==
    /\ page = "upload"
    /\ field \in AutoFields
    /\ Len(pendingDismiss) < MaxBlurs
    /\ pendingDismiss' = Append(pendingDismiss,
                                [field |-> field, set |-> now, due |-> now + DismissDelay])
    /\ lastOp' = Op("blur", field, E)
    /\ UNCHANGED <<page, offlineFallback, tabbedForm, tabbedHeap, visits, formVars, suggestions, showSuggestions,
                   dismissed, now, submitVars>>

\* A timer that is run as soon as it is set.
TimerDue_NoDelay(t) == now >= t.set

\* Whether a timer is run by the event loop at the present time.
TimerDue(t) == now >= t.due

\* The oldest dismiss timer fires.
FireDismiss ==
    /\ pendingDismiss # <<>>
    /\ TimerDue(Head(pendingDismiss))
    /\ showSuggestions' = [showSuggestions EXCEPT ![Head(pendingDismiss).field] = FALSE]
    /\ pendingDismiss' = Tail(pendingDismiss)
    /\ dismissed' = [dismissed EXCEPT ![Head(pendingDismiss).field] = TRUE]
    /\ lastOp' = Op("dismiss", Head(pendingDismiss).field, E)
    /\ UNCHANGED <<page, offlineFallback, tabbedForm, tabbedHeap, visits, formVars, suggestions, now, submitVars>>

\* Time passes, half a dismiss delay at a time.
Tick ==
    /\ now < MaxTicks * (DismissDelay \div 2)
    /\ now' = now + DismissDelay \div 2
    /\ UNCHANGED <<page, offlineFallback, tabbedForm, tabbedHeap, visits, formVars, autoVars, submitVars, lastOp>>

\* The oldest zero-delay timer fires: validateField(field, value) runs.
RunValidation ==
    /\ pendingValidations # <<>>
    /\ LET t == Head(pendingValidations) IN
         /\ fieldErrors' = ValidateField(fieldErrors, t.field, t.value, t.formData)
         /\ lastOp' = Op("validateField", t.field, t.value)
    /\ pendingValidations' = Tail(pendingValidations)
    /\ UNCHANGED <<page, offlineFallback, tabbedForm, tabbedHeap, visits, formData, lastSide, edits, autoVars, now,
                   submitVars>>

\* handleClearForm, confirmed in the window.confirm dialog.
HandleClearForm ==
    /\ page = "upload"
    /\ ~uploading
    /\ formData' = INITIAL_FORM_STATE
    /\ error' = NoError
    /\ fieldErrors' = NoFieldErrors
    /\ lastOp' = Op("clear", "", E)
    /\ UNCHANGED <<page, offlineFallback, tabbedForm, tabbedHeap, visits, pendingValidations, lastSide, edits, autoVars,
                   now, uploading, requests, results, submits>>

\* handleSubmit with the field-error gate lost.
SubmitGate_RequiredOnly(fd, fe) ==
    IF Len(MissingFields(fd)) > 0 THEN RequiredMessage(MissingFields(fd)) ELSE NoError

\* The two gates of handleSubmit: the message it rejects with, or NoError.
SubmitGate(fd, fe) ==
    IF Len(MissingFields(fd)) > 0 THEN RequiredMessage(MissingFields(fd))
    ELSE IF DOMAIN fe # {}
    THEN Message(<<"Please fix the validation errors shown in red before submitting">>)
    ELSE NoError

\* submissionData of handleSubmit
SubmissionData(fd) == [f \in DOMAIN fd |-> IF f = "top_k" THEN ParseInt(fd[f]) ELSE fd[f]]

\* A submit button that is never disabled.
SubmitEnabled_Always == TRUE

\* Whether the submit button takes a click.
SubmitEnabled == ~uploading

\* handleSubmit up to its await: a click on the submit button.
HandleSubmit ==
    /\ page = "upload"
    /\ SubmitEnabled
    /\ submits < MaxSubmits
    /\ IF SubmitGate(formData, fieldErrors) # NoError
       THEN /\ error' = SubmitGate(formData, fieldErrors)
            /\ UNCHANGED <<uploading, requests, submits>>
       ELSE /\ uploading' = TRUE
            /\ error' = NoError
            /\ requests' = Append(requests,
                                  [payload |-> SubmissionData(formData),
                                   formData |-> formData, mounted |-> TRUE])
            /\ submits' = submits + 1
    /\ lastOp' = Op("handleSubmit", "", E)
    /\ UNCHANGED <<page, offlineFallback, tabbedForm, tabbedHeap, visits, formVars, autoVars, now, results>>

Remove(s, i) == SubSeq(s, 1, i - 1) \o SubSeq(s, i + 1, Len(s))

\* handleSubmit from its await on: the i-th call in flight is answered by resp.
Settle(i, resp) ==
    /\ i \in 1..Len(requests)
    /\ LET r == requests[i]
           call == WithFallback(resp, SubmitClassification(resp), r.payload)
           out == AfterAwait(call, r.formData)
       IN /\ lastOp' = Settled(r, resp)
          /\ IF out.navigated
             THEN /\ page' = "results"
                  /\ results' = out.results
                  /\ requests' = Orphaned(Remove(requests, i))
                  /\ FreshUploadPage
             ELSE /\ requests' = Remove(requests, i)
                  /\ IF r.mounted
                     THEN error' = out.error /\ uploading' = FALSE
                     ELSE UNCHANGED <<error, uploading>>
                  /\ UNCHANGED <<page, results, formVars, autoVars>>
    /\ UNCHANGED <<offlineFallback, tabbedForm, tabbedHeap, visits, now, submits>>

\* handleNavClick(page) of the navigation bar, and the buttons of the other
\* pages that navigate to the form.
Navigate(p) ==
    /\ p \in {"home", "upload", "about"}
    /\ p # page
    /\ visits < MaxVisits
    /\ visits' = visits + 1
    /\ page' = p
    /\ results' = <<>>
    /\ requests' = Orphaned(requests)
    /\ FreshUploadPage
    /\ lastOp' = Op("navigate", "", E)
    /\ UNCHANGED <<offlineFallback, tabbedForm, tabbedHeap, now, submits>>

\* The handlers of the tabbed form leave the rest of the application alone.
TabbedOnly(name, field, value) ==
    /\ lastOp' = Op(name, field, <<value>>)
    /\ UNCHANGED <<page, offlineFallback, formVars, autoVars, now, submitVars, visits>>

\* toggleArrayValue(field, value), from a click on a tag of FormTagSelect.
ToggleArrayValue(field, value) ==
    /\ tabbedForm' = Toggled(tabbedForm, field, value)
    /\ tabbedHeap' = HeapAfter(tabbedHeap, tabbedForm, tabbedForm', ReplacedByToggle(field))
    /\ TabbedOnly("toggleArrayValue", field, value)

\* handleInputChange(field, value) of the tabbed form.
TabbedHandleInputChange(field, value) ==
    /\ tabbedForm' = InputChanged(tabbedForm, field, value)
    /\ tabbedHeap' = HeapAfter(tabbedHeap, tabbedForm, tabbedForm', ReplacedByInputChange(field))
    /\ TabbedOnly("tabbedInputChange", field, value)

\* applyQuickFill(template): the template's fields replace the form's.
ApplyQuickFill(template) ==
    /\ tabbedForm' = [f \in DOMAIN tabbedForm |->
                        IF f \in DOMAIN QUICK_FILL_TEMPLATES[template]
                        THEN QUICK_FILL_TEMPLATES[template][f] ELSE tabbedForm[f]]
    /\ tabbedHeap' = HeapAfter(tabbedHeap, tabbedForm, tabbedForm', ReplacedByQuickFill(template))
    /\ TabbedOnly("applyQuickFill", "", template)

\* handleClearForm of the tabbed form, confirmed or not.
TabbedHandleClearForm(confirmed) ==
    /\ tabbedForm' = IF confirmed THEN tabbedHeap.initial ELSE tabbedForm
    /\ tabbedHeap' = IF confirmed THEN [tabbedHeap EXCEPT !.shared = Parts] ELSE tabbedHeap
    /\ TabbedOnly("tabbedClearForm", "", IF confirmed THEN "confirmed" ELSE "cancelled")

----------------------------------------------------------------------------
\* Specifications.

\* Edits of one range pair and a free-text field.
PairFields == {"length_metres_min", "length_metres_max", "ship_name"}
PairInputs(f) ==
    IF f \in RangeFields THEN {E, <<"5">>, <<"1", "0">>, <<"2", "0">>, <<"-", "1">>}
    ELSE {E, <<"c", "h">>}

NextForm ==
    \/ \E f \in PairFields : \E v \in PairInputs(f) : OnChange(f, v)
    \/ RunValidation
    \/ HandleClearForm

SpecForm == Init /\ [][NextForm]_vars

\* The same edits and their validations, the form never cleared.
NextEdit ==
    \/ \E f \in PairFields : \E v \in PairInputs(f) : OnChange(f, v)
    \/ RunValidation

SpecEdit == Init /\ [][NextEdit]_vars

\* The same edits in the ordinary timing: the zero-delay validation of an edit
\* runs before the next edit is made.
NextPrompt ==
    \/ /\ pendingValidations = <<>>
       /\ \E f \in PairFields : \E v \in PairInputs(f) : OnChange(f, v)
    \/ RunValidation

SpecPrompt == Init /\ [][NextPrompt]_vars

\* Edits of the result-count field and a year field.
TopKFields == {"top_k", "launch_year"}
TopKInputs(f) ==
    IF f = "top_k"
    THEN {E, <<"0">>, <<"0", ".", "5">>, <<"1">>, <<"1", "0">>, <<"1", "0", ".", "5">>,
          <<"1", "5">>, <<"-", "1">>, <<"a", "b", "c">>}
    ELSE {E, <<"1", "7", "9", "9">>, <<"1", "8", "0", "0">>, <<"2", "0", "5", "1">>}

NextTopK ==
    \/ \E f \in TopKFields : \E v \in TopKInputs(f) : OnChange(f, v)
    \/ RunValidation
    \/ HandleClearForm

SpecTopK == Init /\ [][NextTopK]_vars

\* The submission pipeline: the required fields are edited, the form is
\* submitted, the calls are answered, and the user moves between the pages.
SubmitFields == {"speed_knots_min", "speed_knots_max", "top_k"}
SubmitInputs(f) ==
    IF f = "speed_knots_min" THEN {<<"1", "0">>}
    ELSE IF f = "speed_knots_max" THEN {<<"5">>, <<"3", "0">>}
    ELSE {E, <<"3">>}

NextSubmit ==
    \/ \E f \in SubmitFields : \E v \in SubmitInputs(f) : OnChange(f, v)
    \/ RunValidation
    \/ HandleSubmit
    \/ \E i \in 1..MaxSubmits : \E resp \in Responses : Settle(i, resp)
    \/ \E p \in {"home", "upload"} : Navigate(p)

SpecSubmit == Init /\ [][NextSubmit]_vars

\* One form and the wire: the required fields are filled, the form is
\* submitted, and the call is answered in every way the contract allows; a
\* failed submission can be retried.
WireInputs(f) ==
    IF f = "speed_knots_min" THEN {<<"1", "0">>}
    ELSE IF f = "speed_knots_max" THEN {<<"3", "0">>}
    ELSE {<<"2">>, <<"2", ".", "5">>}

NextWire ==
    \/ \E f \in SubmitFields : \E v \in WireInputs(f) : OnChange(f, v)
    \/ RunValidation
    \/ HandleSubmit
    \/ \E i \in 1..MaxSubmits : \E resp \in AllResponses : Settle(i, resp)

SpecWire == Init /\ [][NextWire]_vars

\* The form and the normaliser: the required fields and the result count are
\* edited, also while a call is in flight, and every call succeeds with a
\* match list of 0..MaxMatches entries.
NormalizeInputs(f) ==
    IF f = "speed_knots_min" THEN {<<"1", "0">>}
    ELSE IF f = "speed_knots_max" THEN {<<"3", "0">>}
    ELSE {<<"0">>, <<"2">>}

SuccessResponses == {r \in AllResponses : r.kind = "http" /\ r.status = 200 /\ r.data.success}

NextNormalize ==
    \/ \E f \in SubmitFields : \E v \in NormalizeInputs(f) : OnChange(f, v)
    \/ RunValidation
    \/ HandleSubmit
    \/ \E i \in 1..MaxSubmits : \E resp \in SuccessResponses : Settle(i, resp)

SpecNormalize == Init /\ [][NextNormalize]_vars

\* The results view: the result count is edited to a value below its range or
\* inside it and submitted, every call succeeds with 0..MaxMatches matches.
ViewInputs(f) ==
    IF f = "speed_knots_min" THEN {<<"1", "0">>}
    ELSE IF f = "speed_knots_max" THEN {<<"3", "0">>}
    ELSE {<<"-", "1">>, <<"2">>}

NextView ==
    \/ \E f \in SubmitFields : \E v \in ViewInputs(f) : OnChange(f, v)
    \/ RunValidation
    \/ HandleSubmit
    \/ \E i \in 1..MaxSubmits : \E resp \in SuccessResponses : Settle(i, resp)

SpecView == Init /\ [][NextView]_vars

\* The aggregate of a result: the service answers with match lists whose
\* similarity scores lie on and next to the band limits, in any order.
MaxScored == 2
ScoreValues == {0, 60 * Scale - 1, 60 * Scale, 80 * Scale - 1, 80 * Scale, 100 * Scale}
ScoredLists == UNION {[1..n -> ScoreValues] : n \in 0..MaxScored}

ScoreResponses ==
    {[kind |-> "http", message |-> "", status |-> 200,
      data |-> Data(TRUE, "", [i \in 1..Len(l) |-> [similarity_score |-> Num(l[i])]])] :
        l \in ScoredLists}

ScoreInputs(f) ==
    IF f = "speed_knots_min" THEN {<<"1", "0">>}
    ELSE IF f = "speed_knots_max" THEN {<<"3", "0">>}
    ELSE {<<"1">>, <<"2">>}

NextScore ==
    \/ \E f \in SubmitFields : \E v \in ScoreInputs(f) : OnChange(f, v)
    \/ RunValidation
    \/ HandleSubmit
    \/ \E i \in 1..MaxSubmits : \E resp \in ScoreResponses : Settle(i, resp)

SpecScore == Init /\ [][NextScore]_vars

\* The tabbed form: tags toggled, plain and nested fields typed, templates
\* applied, the form cleared.
TabbedInputs == {"shipType", "position.lat", "position.lon"}

NextTabbed ==
    \/ \E f \in ArrayFields : \E v \in TAG_OPTIONS[f] : ToggleArrayValue(f, v)
    \/ \E field \in TabbedInputs : \E v \in {"", "frigate"} : TabbedHandleInputChange(field, v)
    \/ \E t \in DOMAIN QUICK_FILL_TEMPLATES : ApplyQuickFill(t)
    \/ \E c \in BOOLEAN : TabbedHandleClearForm(c)

SpecTabbed == Init /\ [][NextTabbed]_vars

\* Clear Form on both forms: the flat form is edited into a field error and a
\* rejected submit, the tabbed form is typed into and toggled.
ClearFields == {"length_metres_min", "length_metres_max", "flight_deck"}
ClearInputs(f) ==
    IF f = "length_metres_min" THEN {<<"1", "0">>}
    ELSE IF f = "length_metres_max" THEN {<<"5">>}
    ELSE {<<"T", "r", "u", "e">>}
TabbedClearInputs == {"rasOperations", "position.lat"}

NextClear ==
    \/ \E f \in ClearFields : \E v \in ClearInputs(f) : OnChange(f, v)
    \/ RunValidation
    \/ HandleSubmit
    \/ HandleClearForm
    \/ ToggleArrayValue("hullShape", "Rounded")
    \/ \E field \in TabbedClearInputs : TabbedHandleInputChange(field, "yes")
    \/ \E c \in BOOLEAN : TabbedHandleClearForm(c)

SpecClear == Init /\ [][NextClear]_vars

\* The required-field gate: each required field filled or emptied, the speed
\* pair filled so that it violates its range rule.
RequiredInputs(f) ==
    IF f = "speed_knots_min" THEN {E, <<"1", "0">>}
    ELSE IF f = "speed_knots_max" THEN {E, <<"5">>}
    ELSE {E, <<"3">>}

NextRequired ==
    \/ \E f \in SubmitFields : \E v \in RequiredInputs(f) : OnChange(f, v)
    \/ RunValidation
    \/ HandleSubmit

SpecRequired == Init /\ [][NextRequired]_vars

\* The report generator behind the offline fallback: forms that differ in the
\* fields the report quotes are submitted at different times while the service
\* cannot be reached.
ReportFields == {"speed_knots_min", "speed_knots_max", "length_metres_min"}
ReportInputs(f) ==
    IF f = "speed_knots_min" THEN {<<"1">>}
    ELSE IF f = "speed_knots_max" THEN {<<"3">>}
    ELSE {<<"5">>}
Unreachable == {r \in Responses : r.kind = "network"}

NextReport ==
    \/ \E f \in ReportFields : \E v \in ReportInputs(f) : OnChange(f, v)
    \/ OnChangeAutocomplete("country", <<"C", "h">>)
    \/ RunValidation
    \/ HandleSubmit
    \/ Tick
    \/ \E i \in 1..MaxSubmits : \E resp \in Unreachable : Settle(i, resp)

SpecReport == Init /\ [][NextReport]_vars

\* The autocomplete controller of the country and base-port inputs.
AutoInputs(f) == IF f = "country" THEN {E, <<"c", "h">>, <<"C", "U">>} ELSE {<<"k", "i">>}
AutoChoices == {Countries[i] : i \in 1..Len(Countries)} \cup {Ports[i] : i \in 1..Len(Ports)}

NextAuto ==
    \/ \E f \in AutoFields : \E v \in AutoInputs(f) : OnChangeAutocomplete(f, v)
    \/ \E f \in AutoFields : \E v \in AutoChoices : OnSelect(f, v)
    \/ \E f \in AutoFields : HideAutocompleteSuggestions(f)
    \/ FireDismiss
    \/ Tick

SpecAuto == Init /\ [][NextAuto]_vars

\* Typing into the two autocomplete inputs and choosing from their panels.
SuggestInputs(f) ==
    IF f = "country" THEN {E, <<"c", "h">>, <<"C", "U">>, <<"x">>}
    ELSE {E, <<"k", "i">>, <<"S">>}

NextSuggest ==
    \/ \E f \in AutoFields : \E v \in SuggestInputs(f) : OnChangeAutocomplete(f, v)
    \/ \E f \in AutoFields : \E v \in AutoChoices : OnSelect(f, v)

SpecSuggest == Init /\ [][NextSuggest]_vars

\* The autocomplete controller with its timers run on time: a keystroke is
\* handled only while no dismiss timer is due, so a timer that is pending at a
\* keystroke has not run out its delay yet.
NoTimerDue == \A i \in 1..Len(pendingDismiss) : ~TimerDue(pendingDismiss[i])

\* A keystroke in an autocomplete input, handled before any timer is due.
TypeOnTime(field, value) ==
    /\ NoTimerDue
    /\ OnChangeAutocomplete(field, value)

NextRetype ==
    \/ \E f \in AutoFields : \E v \in AutoInputs(f) : TypeOnTime(f, v)
    \/ \E f \in AutoFields : HideAutocompleteSuggestions(f)
    \/ FireDismiss
    \/ Tick

SpecRetype == Init /\ [][NextRetype]_vars

\* The autocomplete controller on a form that can also be cleared.
NextAutoClear ==
    \/ \E f \in AutoFields : \E v \in AutoInputs(f) : OnChangeAutocomplete(f, v)
    \/ \E f \in AutoFields : \E v \in AutoChoices : OnSelect(f, v)
    \/ \E f \in AutoFields : HideAutocompleteSuggestions(f)
    \/ FireDismiss
    \/ Tick
    \/ HandleClearForm

SpecAutoClear == Init /\ [][NextAutoClear]_vars

----------------------------------------------------------------------------
\* Properties of the submission pipeline.

\* A step taken by the handler named op (time passing is the one step that
\* is no handler's).
Handled(op) == now' = now /\ lastOp'.op = op

\* A step in which handleSubmit handles a click on the submit button.
SubmitClicked == Handled("handleSubmit")

\* A step in which a call in flight is answered.
CallSettles == Handled("settle")

ShowsMessage(e) == e.kind = "message" /\ Len(e.text) > 0 /\ e.text[1] # ""

\* C1: a submit made while speed_knots_min, speed_knots_max or top_k is empty,
\* or while FieldErrorSet has an entry, starts no classify request, leaves
\* uploading false and sets a non-empty error message.
C1_RejectedSubmitStartsNoRequest ==
    [][(SubmitClicked
          /\ (\/ formData["speed_knots_min"] = E
              \/ formData["speed_knots_max"] = E
              \/ formData["top_k"] = E
              \/ DOMAIN fieldErrors # {}))
         => /\ requests' = requests
            /\ submits' = submits
            /\ ~uploading /\ ~uploading'
            /\ ShowsMessage(error')]_vars

\* C1 witness: a submit was rejected by the field-error gate with every
\* required field filled; nothing is in flight.
C1_Witness ==
    /\ lastOp.op = "handleSubmit"
    /\ MissingFields(formData) = <<>>
    /\ DOMAIN fieldErrors # {}
    /\ error = Message(<<"Please fix the validation errors shown in red before submitting">>)
    /\ requests = <<>>
    /\ ~uploading

\* C2 (as claimed): at most one classification request is in flight at any
\* time.
C2_AtMostOneInFlight == Len(requests) <= 1

\* What the service answers when it rejects a call: HTTP 400, 422 or 500, or a
\* 2xx body whose success flag is false.
Rejected(resp) ==
    /\ resp.kind = "http"
    /\ \/ resp.status \in {400, 422, 500}
       \/ resp.status \in 200..299 /\ ~resp.data.success

\* C3: when a call is answered with a rejection, the page does not change, no
\* result is built or replaced by a fallback result, and the form that made the
\* call (while it is still mounted) leaves uploading and shows a non-empty
\* error message.
C3_RejectionSurfaces ==
    [][(CallSettles /\ Rejected(lastOp'.resp))
         => /\ page' = page
            /\ results' = results
            /\ lastOp'.request.mounted => (~uploading' /\ ShowsMessage(error'))]_vars

\* C3 witness: with the fallback variant active, a 422 has been answered and
\* its message is on the form.
C3_Witness ==
    /\ lastOp.op = "settle"
    /\ lastOp.resp.status = 422
    /\ lastOp.request.mounted
    /\ offlineFallback
    /\ page = "upload"
    /\ error = Message(<<"top_k out of range">>)
    /\ ~uploading
    /\ results = <<>>

\* A step in which a call fails with a network error in the fallback variant.
FallbackTaken == CallSettles /\ offlineFallback /\ lastOp'.resp.kind = "network"

\* The result built in such a step is sourced from the synthetic match set.
FromSyntheticSet ==
    /\ page' = "results"
    /\ Len(results') = 1
    /\ results'[1].classification_data.matches = MockMatches
    /\ results'[1].vessels_detected = 5

----------------------------------------------------------------------------
\* Properties of the validation engine.

MinFields == {f \in PairedFields : "max" \in DOMAIN RangeValidations[f]}

Populated(f) == formData[f] # E
Flagged(f) == f \in DOMAIN fieldErrors
Value(f) == ParseFloat(formData[f])

\* A step in which the oldest deferred validation runs.
ValidationRuns ==
    /\ pendingValidations # <<>>
    /\ pendingValidations' = Tail(pendingValidations)
    /\ Handled("validateField")

\* C5: for each range pair, whenever no deferred validation is pending, both
\* sides are non-empty and neither side has an entry in FieldErrorSet, the
\* min value is at most the max value.
C5_MinLeMaxWithoutError ==
    pendingValidations = <<>> =>
        \A f \in MinFields :
            LET g == RangeValidations[f].max IN
            (Populated(f) /\ Populated(g) /\ ~Flagged(f) /\ ~Flagged(g))
                => (~Value(f).nan /\ ~Value(g).nan /\ Value(f).v <= Value(g).v)

\* C5 witness: a pair filled on both sides by two edits, validated, with no
\* entry on either side.
C5_Witness ==
    /\ pendingValidations = <<>>
    /\ edits >= 2
    /\ formData["length_metres_min"] = <<"5">>
    /\ formData["length_metres_max"] = <<"1", "0">>
    /\ ~Flagged("length_metres_min") /\ ~Flagged("length_metres_max")

\* C6 (as claimed): whenever validation has run and a pair has both sides
\* populated with min greater than max, exactly one of its two fields has an
\* entry in FieldErrorSet: the side edited last, with the min/max message of
\* that side. Stated for values the non-negative rule accepts.
C6_ExactlyOneErrorOnLastEdited ==
    pendingValidations = <<>> =>
        \A f \in MinFields :
            LET g == RangeValidations[f].max IN
            (Populated(f) /\ Populated(g) /\ ~Value(f).nan /\ ~Value(g).nan
               /\ Value(g).v >= 0 /\ Value(f).v > Value(g).v)
                => /\ Flagged(f) # Flagged(g)
                   /\ lastSide[f] => (Flagged(f) /\ fieldErrors[f] = "Min cannot exceed Max")
                   /\ lastSide[g] => (Flagged(g) /\ fieldErrors[g] = "Max cannot be less than Min")

\* Whether the current value of field f violates a rule of the form fd.
ViolatesRule(f, fd) ==
    /\ fd[f] # E
    /\ LET n == ParseFloat(fd[f]) IN
         \/ n.nan
         \/ n.v < 0
         \/ /\ f \in RangeFields
            /\ LET k == CHOOSE x \in DOMAIN RangeValidations[f] : TRUE
                   sib == fd[RangeValidations[f][k]]
               IN /\ sib # E
                  /\ ~ParseFloat(sib).nan
                  /\ IF k = "max" THEN n.v > ParseFloat(sib).v ELSE n.v < ParseFloat(sib).v
         \/ f = "top_k" /\ (n.v < 1 * Scale \/ n.v > 10 * Scale)
         \/ f \in {"launch_year", "commission_year"} /\ (n.v < 1800 * Scale \/ n.v > 2050 * Scale)

\* C7 (as claimed): whenever no deferred validation is pending, a field has an
\* entry in FieldErrorSet only if its current value violates a rule.
C7_ErrorOnlyWhileViolating ==
    pendingValidations = <<>> => \A f \in DOMAIN fieldErrors : ViolatesRule(f, formData)

\* C8 (as claimed): when the deferred validation of a range field runs, it
\* compares against the sibling's value in the current form state: the entry
\* it leaves is the one validateField gives on the current form.
C8_ValidationReadsCurrentSibling ==
    [][(ValidationRuns /\ Head(pendingValidations).field \in RangeFields)
         => fieldErrors' = ValidateField(fieldErrors, Head(pendingValidations).field,
                                         Head(pendingValidations).value, formData)]_vars

\* C9: when validateField has run on a non-empty numeric value of top_k,
\* FieldErrorSet holds an entry for top_k if and only if the value lies
\* outside [1, 10].
C9_TopKEntryIffOutsideRange ==
    [][(ValidationRuns /\ Head(pendingValidations).field = "top_k"
          /\ Head(pendingValidations).value # E
          /\ ~ParseFloat(Head(pendingValidations).value).nan)
         => (("top_k" \in DOMAIN fieldErrors')
               <=> (ParseFloat(Head(pendingValidations).value).v < 1 * Scale
                      \/ ParseFloat(Head(pendingValidations).value).v > 10 * Scale))]_vars

\* C9 witness: top_k = 10.5 has been validated and carries the range message.
C9_Witness ==
    /\ pendingValidations = <<>>
    /\ formData["top_k"] = <<"1", "0", ".", "5">>
    /\ Flagged("top_k")
    /\ fieldErrors["top_k"] = "Must be between 1 and 10"

----------------------------------------------------------------------------
\* Properties of the autocomplete controller.

\* A step in which the suggestion of lastOp' is selected while a dismiss set
\* by the field's blur is pending and its delay has not elapsed.
SelectedBeforeDismiss ==
    /\ Handled("select")
    /\ \E i \in 1..Len(pendingDismiss) :
         /\ pendingDismiss[i].field = lastOp'.field
         /\ now < pendingDismiss[i].set + 200

\* A step in which a dismiss timer fires.
DismissFires == Handled("dismiss") /\ pendingDismiss # <<>>

\* C10: a suggestion selected after a blur has set a dismiss and before its
\* delay has elapsed is written to the field and the panel is hidden at once;
\* a dismiss that fires on a hidden panel changes neither the field's value nor
\* the hidden state; and a dismiss never fires before 200 ms have passed since
\* it was set.
C10_SelectBeforeDismiss ==
    [][/\ SelectedBeforeDismiss
            => /\ formData'[lastOp'.field] = lastOp'.value
               /\ ~showSuggestions'[lastOp'.field]
       /\ DismissFires
            => /\ formData' = formData
               /\ ~showSuggestions[lastOp'.field] => showSuggestions' = showSuggestions
               /\ ~showSuggestions'[lastOp'.field]
               /\ now >= Head(pendingDismiss).set + 200]_vars

\* C10 witness: Chad was selected 100 ms after the blur; the dismiss then
\* fired, and the field still holds Chad with its panel hidden.
C10_Witness ==
    /\ lastOp = Op("dismiss", "country", E)
    /\ formData["country"] = <<"C", "h", "a", "d">>
    /\ ~showSuggestions["country"]
    /\ pendingDismiss = <<>>
    /\ now = 200

\* C11 (as claimed): in every reachable state an autocomplete field's
\* visibility flag is true only if the field's current text is non-empty and
\* neither a select nor an elapsed dismiss has happened since the last
\* keystroke in it.
C11_VisibleOnlyWhileTyped ==
    \A f \in AutoFields : showSuggestions[f] => (formData[f] # E /\ ~dismissed[f])

----------------------------------------------------------------------------
\* Properties of the submission state machine.

\* The outcomes of a settled call, as the form's page shows them.
Succeeded == page' = "results" /\ Len(results') = 1 /\ error' = NoError
Failed == page' = "upload" /\ results' = results /\ ShowsMessage(error')

\* C12: a submission that passes both gates starts from a form that is not
\* uploading and puts it into uploading with one more call in flight; when the
\* call of the mounted form settles, the form was uploading, ends in exactly
\* one of Succeeded and Failed, and is no longer uploading, so that after
\* Failed the submit button takes a click again; and a form is uploading only
\* while a call of its own is in flight.
C12_SubmissionStateMachine ==
    [][/\ (SubmitClicked /\ requests' # requests)
            => /\ ~uploading /\ uploading'
               /\ error' = NoError
               /\ Len(requests') = Len(requests) + 1
       /\ (CallSettles /\ lastOp'.request.mounted)
            => /\ uploading /\ ~uploading'
               /\ Succeeded # Failed
               /\ Failed => SubmitEnabled'
       /\ uploading' => \E i \in 1..Len(requests') : requests'[i].mounted]_vars

\* C12 witness: the first call failed and the retry made from the same form is
\* in flight.
C12_Witness ==
    /\ page = "upload"
    /\ submits = 2
    /\ visits = 0
    /\ Len(requests) = 1
    /\ uploading
    /\ error = NoError

\* A step in which handleSubmit passes both gates and starts a call.
CallStarts == SubmitClicked /\ Len(requests') = Len(requests) + 1

\* C13: the payload passed to the classify call has the fields of the form at
\* the time of the submit; top_k carries the integer part of the form's top_k
\* as a number, and every other field carries exactly the form's value.
C13_PayloadIsFormWithIntegerTopK ==
    [][CallStarts =>
         LET payload == requests'[Len(requests')].payload
             typed == ParseFloat(formData["top_k"])
         IN /\ DOMAIN payload = DOMAIN formData
            /\ \A f \in DOMAIN formData \ {"top_k"} : payload[f] = formData[f]
            /\ payload["top_k"].nan = typed.nan
            /\ (~typed.nan /\ typed.v >= 0)
                 => /\ payload["top_k"].v % Scale = 0
                    /\ payload["top_k"].v <= typed.v
                    /\ typed.v < payload["top_k"].v + Scale]_vars

\* C13 witness: a call started from a form whose top_k reads 2.5 is in flight
\* with top_k = 2 in its payload.
C13_Witness ==
    /\ Len(requests) = 1
    /\ requests[1].formData["top_k"] = <<"2", ".", "5">>
    /\ requests[1].payload["top_k"] = Num(2 * Scale)
    /\ requests[1].payload["speed_knots_max"] = <<"3", "0">>

\* C14 (as claimed): a submission attempt leaves the form state and
\* FieldErrorSet unchanged in every outcome: rejected at either gate, Failed or
\* Succeeded, so that the values entered are there for a resubmit.
C14_SubmissionKeepsForm ==
    [][(SubmitClicked \/ (CallSettles /\ lastOp'.request.mounted))
         => (formData' = formData /\ fieldErrors' = fieldErrors)]_vars

----------------------------------------------------------------------------
\* Properties of the result normaliser.

\* A step in which a call is answered with success and its result is built.
ResultBuilt == CallSettles /\ lastOp'.resp.kind = "http" /\ lastOp'.resp.data.success

\* The i-th display match is derived from the i-th raw match.
DerivedInOrder(display, raw) ==
    \A i \in 1..Len(display) :
        /\ display[i].id = i - 1
        /\ display[i].confidence = raw[i].similarity_score

Min(a, b) == IF a <= b THEN a ELSE b

Band(v) ==
    IF v < 60 * Scale THEN "Low"
    ELSE IF v < 80 * Scale THEN "Medium"
    ELSE "High"

RECURSIVE SumOfConfidences(_)
SumOfConfidences(ms) ==
    IF Len(ms) = 0 THEN 0 ELSE ms[1].confidence.v + SumOfConfidences(Tail(ms))

NetworkFailure(resp) == resp.kind = "network"
HttpFailure(resp) == resp.kind = "http" /\ (resp.status < 200 \/ resp.status > 299)

\* C18: submitClassification maps every failure of the classify call to one
\* thrown error: 400 and 422 give the server's error text when present and a
\* fixed validation message otherwise, 500 gives a fixed server-error message,
\* any other non-2xx status N gives "Classification failed with status N", a
\* network-level failure gives the connectivity message; no failure returns a
\* value, and a mounted form without the offline fallback shows the thrown
\* message.
C18_EveryFailureMapsToItsMessage ==
    [][CallSettles =>
         LET resp == lastOp'.resp
             call == SubmitClassification(resp)
         IN /\ (NetworkFailure(resp) \/ HttpFailure(resp))
                  => /\ call.threw
                     /\ (lastOp'.request.mounted /\ ~offlineFallback)
                          => error' = Message(<<call.message>>)
            /\ (HttpFailure(resp) /\ resp.status \in {400, 422} /\ resp.data.error # "")
                  => call.message = resp.data.error
            /\ (HttpFailure(resp) /\ resp.status = 400 /\ resp.data.error = "")
                  => call.message = "Invalid form data or request"
            /\ (HttpFailure(resp) /\ resp.status = 422 /\ resp.data.error = "")
                  => call.message = "Validation error: Please check your input values"
            /\ (HttpFailure(resp) /\ resp.status = 500)
                  => call.message = "Server error occurred while processing the classification"
            /\ (HttpFailure(resp) /\ resp.status \notin {400, 422, 500})
                  => call.message = "Classification failed with status " \o ToString(resp.status)
            /\ NetworkFailure(resp)
                  => call.message = "Unable to connect to the server. Please check your connection and try again."]_vars

\* C19: a response that arrives after the user has navigated away from the
\* form that submitted it is discarded: the page, the displayed results and
\* the error stay as they were.
C19_LateResponseDiscarded ==
    [][(CallSettles /\ ~lastOp'.request.mounted)
         => (page' = page /\ results' = results /\ error' = error)]_vars

\* The values an array-valued field holds, and whether it holds each once.
Members(arr) == {arr[i] : i \in 1..Len(arr)}
NoDuplicates(arr) == \A i, j \in 1..Len(arr) : arr[i] = arr[j] => i = j

\* C20: toggleArrayValue(field, v) adds v to the field when it is absent and
\* removes it when present, keeps the field's other values and every other
\* field; two successive toggles of the same value restore the field's
\* membership; and no array-valued field ever holds a value twice.
C20_ToggleFlipsMembership ==
    [][/\ \A f \in ArrayFields : \A v \in TAG_OPTIONS[f] :
            (Handled("toggleArrayValue") /\ lastOp'.field = f /\ lastOp'.value = <<v>>)
              => /\ v \in Members(tabbedForm'[f]) <=> v \notin Members(tabbedForm[f])
                 /\ Members(tabbedForm'[f]) \ {v} = Members(tabbedForm[f]) \ {v}
                 /\ \A g \in DOMAIN tabbedForm \ {f} : tabbedForm'[g] = tabbedForm[g]
                 /\ Members(Toggled(tabbedForm', f, v)[f]) = Members(tabbedForm[f])
       /\ \A f \in ArrayFields : NoDuplicates(tabbedForm'[f])]_vars

\* A toggle has removed Tumblehome from a hull shape of three values, with
\* other fields filled in.
C20_Witness ==
    /\ lastOp.op = "toggleArrayValue"
    /\ lastOp.field = "hullShape" /\ lastOp.value = <<"Tumblehome">>
    /\ Members(tabbedForm["hullShape"]) = {"Sleek/Streamlined", "Rounded"}
    /\ Len(tabbedForm["radarArrays"]) = 2
    /\ tabbedForm["shipType"] = "destroyer"

\* The defaults of the flat form, field by field.
BooleanLikeFields == {"flight_deck"}
FlatDefault(f) ==
    IF f = "top_k" THEN <<"5">>
    ELSE IF f \in BooleanLikeFields THEN <<"F", "a", "l", "s", "e">>
    ELSE E

\* A step in which Clear Form of the tabbed form is confirmed.
TabbedCleared == Handled("tabbedClearForm") /\ lastOp'.value = <<"confirmed">>

\* C21 (as claimed): after a confirmed Clear Form every scalar field is empty,
\* the boolean-like fields are at 'False' and top_k is at '5', whatever
\* updates, nested updates and toggles came before; the submit error and
\* FieldErrorSet are empty; and no update modifies the initial default state.
C21_ClearLeavesEveryScalarEmpty ==
    [][/\ Handled("clear")
            => /\ \A f \in Fields : formData'[f] = FlatDefault(f)
               /\ error' = NoError /\ fieldErrors' = NoFieldErrors
       /\ TabbedCleared
            => /\ \A f \in PlainFields : tabbedForm'[f] = ""
               /\ tabbedForm'["position"] = [lat |-> "", lon |-> ""]
               /\ \A f \in ArrayFields : tabbedForm'[f] = <<>>
       /\ tabbedHeap'.initial = tabbedHeap.initial]_vars

\* C21: after a confirmed Clear Form the form state is the initial default
\* state of its form: in the flat form every scalar field empty, the
\* boolean-like fields at 'False' and top_k at '5', with the submit error and
\* FieldErrorSet empty; in the tabbed form every scalar field empty except
\* rasOperations at 'unknown', and every array empty; and no update modifies
\* the initial default state.
C21_ClearRestoresDefaults ==
    [][/\ Handled("clear")
            => /\ \A f \in Fields : formData'[f] = FlatDefault(f)
               /\ error' = NoError /\ fieldErrors' = NoFieldErrors
       /\ TabbedCleared
            => /\ tabbedForm'["shipType"] = ""
               /\ tabbedForm'["rasOperations"] = "unknown"
               /\ tabbedForm'["position"] = [lat |-> "", lon |-> ""]
               /\ \A f \in ArrayFields : tabbedForm'[f] = <<>>
       /\ tabbedHeap'.initial = tabbedHeap.initial]_vars

\* Both forms have been edited and then cleared, the tabbed one last.
C21_Witness ==
    /\ lastOp.op = "tabbedClearForm" /\ lastOp.value = <<"confirmed">>
    /\ tabbedForm["rasOperations"] = "unknown"
    /\ tabbedHeap.shared = Parts
    /\ edits >= 2
    /\ \A f \in Fields : formData[f] = FlatDefault(f)
    /\ fieldErrors = NoFieldErrors /\ error = NoError

\* The labels of the required fields that are empty in fd.
EmptyRequiredLabels(fd) ==
    {l \in {"Speed Min", "Speed Max", "Number of Matches"} :
        \/ l = "Speed Min" /\ fd["speed_knots_min"] = E
        \/ l = "Speed Max" /\ fd["speed_knots_max"] = E
        \/ l = "Number of Matches" /\ fd["top_k"] = E}

\* C22: a submit with one or more required fields empty is rejected with one
\* message that lists every empty required field once and no filled one, also
\* when FieldErrorSet is non-empty: the required-field check comes first.
C22_RequiredMessageListsEmptyFields ==
    [][(SubmitClicked /\ EmptyRequiredLabels(formData) # {})
         => /\ requests' = requests /\ ~uploading'
            /\ error'.kind = "message"
            /\ error'.text[1] = "Please fill in the following required fields:"
            /\ Len(error'.text) = 1 + Cardinality(EmptyRequiredLabels(formData))
            /\ {error'.text[i] : i \in 2..Len(error'.text)} = EmptyRequiredLabels(formData)]_vars

\* A submit with the result count empty and an error on the speed pair has
\* been rejected with the required-field message naming the result count only.
C22_Witness ==
    /\ lastOp.op = "handleSubmit"
    /\ DOMAIN fieldErrors # {}
    /\ formData["speed_knots_min"] # E /\ formData["speed_knots_max"] # E
    /\ formData["top_k"] = E
    /\ error = Message(<<"Please fill in the following required fields:", "Number of Matches">>)

\* The lines and the fields of a report that carry the time or an id made of
\* it, the body of a report text without those lines and the labels of its
\* lines, and the times a second report is generated at when the first is
\* generated at the start of the clock: later that day, and the next day.
ClockLines == {"Report Date: ", "Report ID: ", "Timestamp: "}
ClockFields == {"report_id", "timestamp"}
Body(text) == SelectSeq(text, LAMBDA l : l.label \notin ClockLines)
Labels(text) == [i \in 1..Len(text) |-> text[i].label]
ReportClocks == {DismissDelay \div 2, MsPerDay}

\* C23: two reports generated from the same form input at two times have the
\* same body: they differ only in the timestamp and id fields and in the
\* date, id and timestamp lines of the text, line for line; and the report the
\* offline fallback shows is the one generated from the submitted input.
C23_ReportBodyIgnoresClock ==
    [][/\ \A t \in ReportClocks :
            LET input == SubmissionData(formData')
                a == GenerateMockReport(input, 0)
                b == GenerateMockReport(input, t)
            IN /\ \A f \in DOMAIN a \ (ClockFields \cup {"report_text"}) : a[f] = b[f]
               /\ Labels(a.report_text) = Labels(b.report_text)
               /\ Body(a.report_text) = Body(b.report_text)
               /\ a.report_text # b.report_text
       /\ (CallSettles /\ lastOp'.resp.kind = "network" /\ page' = "results")
            => results'[1].classification_data.report_text
                 = GenerateReportText(lastOp'.request.payload, MockMatches, now)]_vars

\* The fallback has generated a report for a form with a country, later than
\* the start of the clock: its text has the country section and is stamped
\* with that time.
C23_Witness ==
    /\ page = "results" /\ lastOp.op = "settle" /\ now > 0
    /\ lastOp.request.payload["country"] = <<"C", "h">>
    /\ LET text == results[1].classification_data.report_text
       IN /\ \E i \in 1..Len(text) : text[i] = Line("  Country:    ", <<"C", "h">>)
          /\ text[Len(text)] = Line("Timestamp: ", ToISOString(now))
          /\ Body(text) # text

\* The catalog of an autocomplete field, and whether entry holds text as a
\* substring when the case of letters is ignored.
Catalog(f) == IF f = "country" THEN Countries ELSE Ports
ContainsIgnoringCase(entry, text) ==
    \E off \in 0..Len(entry) :
        /\ off + Len(text) <= Len(entry)
        /\ \A j \in 1..Len(text) : Lower(entry[off + j]) = Lower(text[j])

\* A step in which text is typed into the autocomplete field f.
Typed(f) == Handled("change") /\ lastOp'.field = f

\* C24: typing text into an autocomplete field sets its candidate list to the
\* entries of its own catalog that contain the text as a case-insensitive
\* substring, in catalog order, makes its panel visible if and only if the
\* text is non-empty, and leaves the list and the flag of every other field
\* unchanged.
C24_SuggestFiltersOwnCatalog ==
    [][\A f \in AutoFields :
         Typed(f)
           => /\ suggestions'[f]
                   = SelectSeq(Catalog(f), LAMBDA e : ContainsIgnoringCase(e, lastOp'.value))
              /\ showSuggestions'[f] <=> lastOp'.value # E
              /\ \A g \in AutoFields \ {f} :
                    /\ suggestions'[g] = suggestions[g]
                    /\ showSuggestions'[g] = showSuggestions[g]]_vars

\* "CU" has been typed into the country field while the base-port panel was
\* open: the country panel shows Cuba alone, the base-port panel is as it was.
C24_Witness ==
    /\ lastOp.op = "change" /\ lastOp.field = "country" /\ lastOp.value = <<"C", "U">>
    /\ suggestions["country"] = << <<"C", "u", "b", "a">> >>
    /\ showSuggestions["country"]
    /\ suggestions["base_port"] # <<>> /\ showSuggestions["base_port"]

\* The fixed validated set: the eight range bounds, the two years and the
\* result count.
ValidatedSet ==
    {"length_metres_min", "length_metres_max", "beam_metres_min", "beam_metres_max",
     "draught_metres_min", "draught_metres_max", "speed_knots_min", "speed_knots_max",
     "launch_year", "commission_year", "top_k"}

\* A step in which the field f is changed, by typing or by choosing a
\* suggestion.
Changed(f) == (Handled("change") \/ Handled("select")) /\ lastOp'.field = f

\* C25: changing a field outside the validated set schedules no validation
\* and leaves FieldErrorSet as it is, and no validation ever runs for such a
\* field.
C25_UnvalidatedFieldsLeaveErrorsAlone ==
    [][/\ \A f \in Fields \ ValidatedSet :
            Changed(f) => /\ pendingValidations' = pendingValidations
                          /\ fieldErrors' = fieldErrors
       /\ Handled("validateField") => lastOp'.field \in ValidatedSet
       /\ \A i \in 1..Len(pendingValidations') :
            pendingValidations'[i].field \in ValidatedSet]_vars

\* The ship name has been changed while the length pair had an error and a
\* validation was still pending: both are as they were.
C25_Witness ==
    /\ lastOp.op = "change" /\ lastOp.field = "ship_name"
    /\ formData["ship_name"] # E
    /\ DOMAIN fieldErrors # {}
    /\ Len(pendingValidations) = 1

\* A step in which handleInputChange(field, value) of the tabbed form runs.
TabbedChanged(field, value) ==
    Handled("tabbedInputChange") /\ lastOp'.field = field /\ lastOp'.value = <<value>>

\* C26: an update with the path 'position.lat' or 'position.lon' sets that
\* child of position and nothing else, the other child included; an update
\* with a flat path sets that field and nothing else.
C26_UpdateSetsOnlyItsPath ==
    [][\A value \in {"", "frigate"} :
         /\ \A child \in {"lat", "lon"} :
              TabbedChanged(IF child = "lat" THEN "position.lat" ELSE "position.lon", value)
                => /\ tabbedForm'["position"][child] = value
                   /\ \A c \in {"lat", "lon"} \ {child} :
                         tabbedForm'["position"][c] = tabbedForm["position"][c]
                   /\ DOMAIN tabbedForm'["position"] = {"lat", "lon"}
                   /\ \A g \in DOMAIN tabbedForm \ {"position"} : tabbedForm'[g] = tabbedForm[g]
         /\ TabbedChanged("shipType", value)
              => /\ tabbedForm'["shipType"] = value
                 /\ \A g \in DOMAIN tabbedForm \ {"shipType"} : tabbedForm'[g] = tabbedForm[g]
         /\ DOMAIN tabbedForm' = DOMAIN tabbedForm]_vars

\* The latitude has been set while the longitude, the ship type and a tag
\* were filled in: they are still there.
C26_Witness ==
    /\ lastOp.op = "tabbedInputChange" /\ lastOp.field = "position.lat"
    /\ tabbedForm["position"] = [lat |-> "frigate", lon |-> "frigate"]
    /\ tabbedForm["shipType"] = "frigate"
    /\ tabbedForm["hullShape"] # <<>>

\* Whether a payload satisfies the rules of validateField: top_k an integer
\* within [TopKMin, TopKMax], each range pair populated on both sides ordered.
PayloadValid(p) ==
    /\ ~p["top_k"].nan
    /\ p["top_k"].v % Scale = 0
    /\ p["top_k"].v >= TopKMin * Scale
    /\ p["top_k"].v <= TopKMax * Scale
    /\ \A f \in MinFields :
          LET g == RangeValidations[f].max IN
          (p[f] # E /\ p[g] # E /\ ~ParseFloat(p[f]).nan /\ ~ParseFloat(p[g]).nan)
              => ParseFloat(p[f]).v <= ParseFloat(p[g]).v

\* C27 (as claimed): every payload that reaches the classify call satisfies
\* the validation rules, top_k an integer in 1..10 and each populated range
\* pair with min at most max, also when the submit comes before the deferred
\* validation of the last edit has run.
C27_PayloadSatisfiesRules ==
    [][CallStarts => PayloadValid(requests'[Len(requests')].payload)]_vars

\* C28 (as claimed): for every result built from a successful response the
\* results view shows exactly one of the ranked match list and the empty
\* state, the empty state if and only if the normalized match list is empty.
C28_ExactlyOneOfListAndEmptyState ==
    [][ResultBuilt =>
         /\ EmptyStateShown(results'[1]) # MatchListShown(results'[1])
         /\ EmptyStateShown(results'[1]) <=> (results'[1].matches = <<>>)]_vars

\* A step in which the only deferred validation left runs, the form having
\* been cleared in the step before: the validation was pending at the clear
\* and nothing was edited since.
LastPendingRunsAfterClear ==
    /\ lastOp.op = "clear"
    /\ ValidationRuns
    /\ pendingValidations' = <<>>

\* C29 (as claimed): after a confirmed Clear Form, once every deferred
\* validation that was pending at the clear has run, FieldErrorSet is empty;
\* stated for a clear with one validation pending, which runs next.
C29_NoErrorAfterClear ==
    [][LastPendingRunsAfterClear => fieldErrors' = NoFieldErrors]_vars

\* A step in which a dismiss timer of a field fires, the last event handled
\* before it being a keystroke that left non-empty text in that field: the
\* timer was set by a blur before that keystroke and its panel was re-opened
\* by the keystroke.
DismissFiresAfterRetype ==
    /\ DismissFires
    /\ lastOp.op = "change"
    /\ lastOp.field = lastOp'.field
    /\ lastOp.value # E

\* C30 (as claimed): a dismiss scheduled by a blur hides only the panel that
\* was open at that blur; when non-empty text is typed in the same field
\* before the delay elapses, the panel re-opened by that keystroke stays
\* visible when the earlier dismiss fires.
C30_ReopenedPanelSurvivesDismiss ==
    [][DismissFiresAfterRetype => showSuggestions'[lastOp'.field]]_vars

====
